---- MODULE Spec2Model ----
(***************************************************************************)
(* Grocery list maker: the GroceryListApp component, in its two variants   *)
(* (the app shell src/src/App.tsx and the catalog-list view                *)
(* src/unnamed/part_000).  The React state of the component is the state   *)
(* of the model; every handler is one action.                              *)
(***************************************************************************)
EXTENDS Integers, Sequences, FiniteSets, TLC

VARIABLES
    variant,      \* which of the two components is mounted
    fetch,        \* settlement of the configuration promise chain
    items,        \* useState<GroceryItem[]>
    config,       \* useState<GroceryConfig | null>
    loading,      \* useState(true)
    showPreview,  \* useState(false)
    toast,        \* useState({show, message, type})
    timers,       \* number of pending setTimeout callbacks of showToast
    clipboard,    \* number of navigator.clipboard.writeText promises in flight
    lastOp,       \* history: the last handler that ran, and whether it
                  \*   reverses the handler that ran before it
    before,       \* history: the entry list before the last toggle / unit change
    handed,       \* history: what the last handler handed to a platform facility
    entered       \* history: the entry list when the open preview was entered

vars == <<variant, fetch, items, config, loading, showPreview, toast, timers,
          clipboard, lastOp, before, handed, entered>>

-----------------------------------------------------------------------------
(* Bounds *)

MaxItems == 2
MaxTimers == 2
MaxClipboard == 1

-----------------------------------------------------------------------------
(* Inputs *)

Shell == "App.tsx"
CatalogView == "part_000"
Variants == {Shell, CatalogView}

Null == [null |-> TRUE]

Other == "Other"

\* Catalogs the configuration may carry: the prefixes of two item sequences,
\* one with distinct ids and one that repeats an id.
CatalogPools ==
    { << [id |-> 1, name |-> "Milk"], [id |-> 2, name |-> "Eggs"] >>,
      << [id |-> 1, name |-> "Milk"], [id |-> 1, name |-> "Eggs"],
         [id |-> 2, name |-> "Bread"] >> }

Min(a, b) == IF a < b THEN a ELSE b

Catalogs == { SubSeq(p, 1, Min(n, Len(p))) : p \in CatalogPools, n \in 0..MaxItems }

\* Unit lists the configuration may carry: the default unit of the app shell
\* is listed, the default unit of the catalog view is not.
UnitLists == { <<"KG(s)">> }

Users == { [name |-> "A", mobile |-> "123", shopkeeperMobile |-> "999"] }

\* GroceryConfig documents that parse and have every field.
Documents == [items : Catalogs, units : UnitLists, user : Users]

\* Parsed documents without an `items` sequence.
MalformedDocuments == [units : UnitLists, user : Users]

\* Values the quantity inputs can deliver (type="number" and type="text").
NumberInputs == {"1", "2"}
TextInputs == {"Rs.20"}

\* new Date() at the moment of an export.
Dates == { [day |-> 5, month |-> "Nov", year |-> 2026] }

Range(s) == { s[i] : i \in 1..Len(s) }

\* Every value a unit <select> can deliver under some configuration.
UnitLabels == UNION { Range(u) : u \in UnitLists } \cup {Other}

-----------------------------------------------------------------------------
(* Pure functions *)

DefaultUnitCatalogView == "Kg(s)"
DefaultUnitShell == "KG(s)"

DefaultUnit(v) == IF v = CatalogView THEN DefaultUnitCatalogView ELSE DefaultUnitShell

\* Slip: the entries start out selected.
initialItemsPreselected(v, catalog) ==
    [ i \in 1..Len(catalog) |->
        [ id |-> catalog[i].id, name |-> catalog[i].name,
          unit |-> DefaultUnit(v), quantity |-> "1", selected |-> TRUE ] ]

\* configData.items.map(item => ({...item, unit, quantity: '1', selected: false}))
initialItems(v, catalog) ==
    [ i \in 1..Len(catalog) |->
        [ id |-> catalog[i].id, name |-> catalog[i].name,
          unit |-> DefaultUnit(v), quantity |-> "1", selected |-> FALSE ] ]

RECURSIVE getSelectedItems(_)
getSelectedItems(list) ==
    IF list = <<>> THEN <<>>
    ELSE IF Head(list).selected
         THEN <<Head(list)>> \o getSelectedItems(Tail(list))
         ELSE getSelectedItems(Tail(list))

\* Slip: the count is taken over all entries.
getSelectedCountAll(list) == Len(list)

getSelectedCount(list) == Len(getSelectedItems(list))

noToast == [show |-> FALSE, message |-> "", type |-> ""]

\* The render guards, top to bottom.
View ==
    IF loading THEN "loading"
    ELSE IF config = Null THEN "configurationError"
    ELSE IF showPreview THEN "preview"
    ELSE "editing"

NoOp == [op |-> "none", id |-> 0, arg |-> "", again |-> FALSE]
Nothing == [via |-> "none"]

-----------------------------------------------------------------------------
(* State after the component has mounted and its effect has issued the fetch *)

Init ==
    /\ variant \in Variants
    /\ fetch = "pending"
    /\ items = <<>>
    /\ config = Null
    /\ loading = TRUE
    /\ showPreview = FALSE
    /\ toast = noToast
    /\ timers = 0
    /\ clipboard = 0
    /\ lastOp = NoOp
    /\ before = <<>>
    /\ handed = Nothing
    /\ entered = <<>>

\* showToast: setToast({show: true, ...}); setTimeout(hide, 3000)
showToast(message, type) ==
    /\ timers < MaxTimers
    /\ toast' = [show |-> TRUE, message |-> message, type |-> type]
    /\ timers' = timers + 1

\* The 3000 ms timer of one showToast call fires.
ToastTimeout ==
    /\ timers > 0
    /\ toast' = noToast
    /\ timers' = timers - 1
    /\ UNCHANGED <<entered, variant, fetch, items, config, loading, showPreview,
                   clipboard, lastOp, before, handed>>

\* fetch(...).then(json).then(configData => ...) with a complete document
LoadConfig(doc) ==
    /\ fetch = "pending"
    /\ fetch' = "fulfilled"
    /\ config' = doc
    /\ items' = initialItems(variant, doc.items)
    /\ loading' = FALSE
    /\ lastOp' = [op |-> "load", id |-> 0, arg |-> "", again |-> FALSE]
    /\ before' = <<>>
    /\ handed' = Nothing
    /\ UNCHANGED <<entered, variant, showPreview, toast, timers, clipboard>>

\* The second then-callback runs on a document without `items`:
\* setConfig(configData) is queued, configData.items.map throws, catch runs.
LoadMalformed(doc) ==
    /\ fetch = "pending"
    /\ fetch' = "malformed"
    /\ config' = doc
    /\ showToast("Failed to load grocery items. Please refresh the page", "error")
    /\ loading' = FALSE
    /\ lastOp' = [op |-> "load", id |-> 0, arg |-> "", again |-> FALSE]
    /\ before' = <<>>
    /\ handed' = Nothing
    /\ UNCHANGED <<entered, variant, items, showPreview, clipboard>>

\* fetch rejects, or response.json() rejects: only the catch callback runs.
LoadReject(kind) ==
    /\ fetch = "pending"
    /\ fetch' = kind
    /\ showToast("Failed to load grocery items. Please refresh the page", "error")
    /\ loading' = FALSE
    /\ lastOp' = [op |-> "load", id |-> 0, arg |-> "", again |-> FALSE]
    /\ before' = <<>>
    /\ handed' = Nothing
    /\ UNCHANGED <<entered, variant, items, config, showPreview, clipboard>>

-----------------------------------------------------------------------------
(* Selection and editing *)

\* Slip: the checkbox handler sets the flag instead of inverting it.
checkboxMapSetting(list, id) ==
    [ i \in 1..Len(list) |->
        IF list[i].id = id THEN [list[i] EXCEPT !.selected = TRUE] ELSE list[i] ]

\* items.map(item => item.id === id ? {...item, selected: !item.selected} : item)
checkboxMap(list, id) ==
    [ i \in 1..Len(list) |->
        IF list[i].id = id THEN [list[i] EXCEPT !.selected = ~list[i].selected]
        ELSE list[i] ]

\* Slip: switching the unit resets the quantity to its default.
unitMapResettingQuantity(list, id, unit) ==
    [ i \in 1..Len(list) |->
        IF list[i].id = id THEN [list[i] EXCEPT !.unit = unit, !.quantity = "1"]
        ELSE list[i] ]

\* items.map(item => item.id === id ? {...item, unit} : item)
unitMap(list, id, unit) ==
    [ i \in 1..Len(list) |->
        IF list[i].id = id THEN [list[i] EXCEPT !.unit = unit] ELSE list[i] ]

\* items.map(item => item.id === id ? {...item, quantity} : item)
quantityMap(list, id, quantity) ==
    [ i \in 1..Len(list) |->
        IF list[i].id = id THEN [list[i] EXCEPT !.quantity = quantity] ELSE list[i] ]

handleCheckboxChange(id) ==
    /\ items' = checkboxMap(items, id)
    /\ lastOp' = [op |-> "toggle", id |-> id, arg |-> "",
                  again |-> lastOp.op = "toggle" /\ lastOp.id = id]
    /\ before' = items
    /\ handed' = Nothing
    /\ UNCHANGED <<entered, variant, fetch, config, loading, showPreview, toast, timers,
                   clipboard>>

handleUnitChange(id, unit) ==
    /\ items' = unitMap(items, id, unit)
    /\ lastOp' = [op |-> "unit", id |-> id, arg |-> unit,
                  again |-> /\ lastOp.op = "unit" /\ lastOp.id = id
                            /\ lastOp.arg = Other
                            /\ \A j \in 1..Len(before) :
                                  before[j].id = id => before[j].unit = unit]
    /\ before' = items
    /\ handed' = Nothing
    /\ UNCHANGED <<entered, variant, fetch, config, loading, showPreview, toast, timers,
                   clipboard>>

handleQuantityChange(id, quantity) ==
    /\ items' = quantityMap(items, id, quantity)
    /\ lastOp' = [op |-> "quantity", id |-> id, arg |-> quantity, again |-> FALSE]
    /\ before' = <<>>
    /\ handed' = Nothing
    /\ UNCHANGED <<entered, variant, fetch, config, loading, showPreview, toast, timers,
                   clipboard>>

\* The <option> values of a row's unit <select>.
UnitOptions ==
    IF variant = CatalogView THEN Range(config.units) \cup {Other}
    ELSE Range(config.units)

\* The values the visible quantity input of row i can deliver.
QuantityInputs(i) ==
    IF variant = CatalogView /\ items[i].unit = Other THEN TextInputs
    ELSE NumberInputs

\* The change events of the table rendered in the editing view.
CheckboxEvent(i) ==
    /\ View = "editing"
    /\ handleCheckboxChange(items[i].id)

UnitEvent(i, unit) ==
    /\ View = "editing"
    /\ items[i].selected
    /\ unit \in UnitOptions
    /\ unit # items[i].unit
    /\ handleUnitChange(items[i].id, unit)

QuantityEvent(i, quantity) ==
    /\ View = "editing"
    /\ items[i].selected
    /\ quantity \in QuantityInputs(i)
    /\ quantity # items[i].quantity
    /\ handleQuantityChange(items[i].id, quantity)

-----------------------------------------------------------------------------
(* View changes *)

\* Slip: the preview opens without the selection check.
handleSubmitUnguarded ==
    /\ showPreview' = TRUE
    /\ lastOp' = [op |-> "submit", id |-> 0, arg |-> "", again |-> FALSE]
    /\ before' = <<>>
    /\ handed' = Nothing
    /\ entered' = items
    /\ UNCHANGED <<variant, fetch, items, config, loading, clipboard, toast, timers>>

handleSubmit ==
    /\ IF getSelectedCount(items) = 0
       THEN /\ showToast("Please select at least one item", "warning")
            /\ UNCHANGED <<showPreview, entered>>
       ELSE /\ showPreview' = TRUE
            /\ entered' = items
            /\ UNCHANGED <<toast, timers>>
    /\ lastOp' = [op |-> "submit", id |-> 0, arg |-> "", again |-> FALSE]
    /\ before' = <<>>
    /\ handed' = Nothing
    /\ UNCHANGED <<variant, fetch, items, config, loading, clipboard>>

handleBackToList ==
    /\ showPreview' = FALSE
    /\ lastOp' = [op |-> "back", id |-> 0, arg |-> "", again |-> FALSE]
    /\ before' = <<>>
    /\ handed' = Nothing
    /\ entered' = <<>>
    /\ UNCHANGED <<variant, fetch, items, config, loading, toast, timers,
                   clipboard>>

SubmitClick == View = "editing" /\ handleSubmit

BackClick == View = "preview" /\ handleBackToList

-----------------------------------------------------------------------------
(* Export formatting.  A text is the sequence of its lines, as split on the *)
(* newline character; the pictographs that open four lines of the catalog   *)
(* view's header are written by name.                                       *)

RECURSIVE repeat(_, _)
repeat(s, n) == IF n = 0 THEN "" ELSE s \o repeat(s, n - 1)

\* String(date.getDate()).padStart(2, '0') - month - year
formatDate(d) ==
    (IF d.day < 10 THEN "0" \o ToString(d.day) ELSE ToString(d.day))
        \o "-" \o d.month \o "-" \o ToString(d.year)

\* Slip: the unit word is printed for every unit.
formatItemDisplayWithUnit(item) ==
    item.quantity \o " " \o item.unit \o " " \o item.name

formatItemDisplay(item) ==
    IF item.unit = Other
    THEN item.quantity \o " " \o item.name
    ELSE item.quantity \o " " \o item.unit \o " " \o item.name

\* `${item.quantity} ${item.unit} ${item.name}` of the app shell
itemText(item) == item.quantity \o " " \o item.unit \o " " \o item.name

generateListTextCatalogView(list, cfg, d) ==
    IF cfg = Null THEN <<"">>
    ELSE LET selectedItems == getSelectedItems(list)
         IN  << ":calendar: Date: " \o formatDate(d),
                ":bust: Name: " \o cfg.user.name,
                ":phone: Contact: " \o cfg.user.mobile,
                "",
                ":cart: *Grocery List*",
                repeat("-", 35),
                "" >>
             \o [ index \in 1..Len(selectedItems) |->
                    ToString(index) \o ") " \o formatItemDisplay(selectedItems[index]) ]
             \o << "",
                   repeat("-", 35),
                   "Total Items: " \o ToString(Len(selectedItems)) >>

generateListTextShell(list, cfg, d) ==
    IF cfg = Null THEN <<"">>
    ELSE LET selectedItems == getSelectedItems(list)
         IN  << "Date: " \o formatDate(d),
                "Name: " \o cfg.user.name,
                "Contact No. - " \o cfg.user.mobile,
                "",
                "Grocery List:",
                repeat("=", 40),
                "" >>
             \o [ index \in 1..Len(selectedItems) |->
                    ToString(index) \o ") " \o itemText(selectedItems[index]) ]
             \o << "" >>

generateListText(v, list, cfg, d) ==
    IF v = CatalogView THEN generateListTextCatalogView(list, cfg, d)
    ELSE generateListTextShell(list, cfg, d)

\* The list-group of the preview: badge number and text of every row.
previewRowsCatalogView(list) ==
    LET selectedItems == getSelectedItems(list)
    IN  [ index \in 1..Len(selectedItems) |->
            [badge |-> index, text |-> formatItemDisplay(selectedItems[index])] ]

previewRowsShell(list) ==
    LET selectedItems == getSelectedItems(list)
    IN  [ index \in 1..Len(selectedItems) |->
            [badge |-> index,
             text |-> selectedItems[index].quantity \o " " \o selectedItems[index].unit
                        \o " " \o selectedItems[index].name] ]

previewRows(v, list) ==
    IF v = CatalogView THEN previewRowsCatalogView(list) ELSE previewRowsShell(list)

-----------------------------------------------------------------------------
(* Exporters *)

\* navigator.clipboard.writeText(generateListText()) is called; the promise
\* is pending when the handler suspends at the await.
handleCopyToClipboard(d) ==
    /\ clipboard < MaxClipboard
    /\ clipboard' = clipboard + 1
    /\ lastOp' = [op |-> "copy", id |-> 0, arg |-> "", again |-> FALSE]
    /\ before' = <<>>
    /\ handed' = [via |-> "clipboard", target |-> "", encoded |-> FALSE,
                  text |-> generateListText(variant, items, config, d)]
    /\ UNCHANGED <<entered, variant, fetch, items, config, loading, showPreview, toast,
                   timers>>

\* navigator.clipboard is undefined: the call throws inside the try block
\* before any text is generated.
handleCopyToClipboardUnavailable ==
    /\ showToast("Failed to copy to clipboard", "error")
    /\ lastOp' = [op |-> "copy", id |-> 0, arg |-> "", again |-> FALSE]
    /\ before' = <<>>
    /\ handed' = Nothing
    /\ UNCHANGED <<entered, variant, fetch, items, config, loading, showPreview, clipboard>>

\* The writeText promise fulfils: the handler resumes after the await.
ClipboardFulfilled ==
    /\ clipboard > 0
    /\ clipboard' = clipboard - 1
    /\ showToast("List copied to clipboard!", "success")
    /\ UNCHANGED <<entered, variant, fetch, items, config, loading, showPreview, lastOp,
                   before, handed>>

\* Slip: the write is not awaited inside the try block, so a rejected write
\* is reported like a fulfilled one.
ClipboardRejectedAsSuccess ==
    /\ clipboard > 0
    /\ clipboard' = clipboard - 1
    /\ showToast("List copied to clipboard!", "success")
    /\ UNCHANGED <<entered, variant, fetch, items, config, loading, showPreview, lastOp,
                   before, handed>>

\* The writeText promise rejects: the handler resumes in the catch block.
ClipboardRejected ==
    /\ clipboard > 0
    /\ clipboard' = clipboard - 1
    /\ showToast("Failed to copy to clipboard", "error")
    /\ UNCHANGED <<entered, variant, fetch, items, config, loading, showPreview, lastOp,
                   before, handed>>

\* Slip: the download closes the preview.
handleDownloadClosingPreview(d) ==
    /\ showToast("List downloaded successfully!", "success")
    /\ showPreview' = FALSE
    /\ lastOp' = [op |-> "download", id |-> 0, arg |-> "", again |-> FALSE]
    /\ before' = <<>>
    /\ handed' = [via |-> "file", encoded |-> FALSE,
                  target |-> "grocery-list-" \o formatDate(d) \o ".txt",
                  text |-> generateListText(variant, items, config, d)]
    /\ UNCHANGED <<entered, variant, fetch, items, config, loading, clipboard>>

handleDownload(d) ==
    /\ showToast("List downloaded successfully!", "success")
    /\ lastOp' = [op |-> "download", id |-> 0, arg |-> "", again |-> FALSE]
    /\ before' = <<>>
    /\ handed' = [via |-> "file", encoded |-> FALSE,
                  target |-> "grocery-list-" \o formatDate(d) \o ".txt",
                  text |-> generateListText(variant, items, config, d)]
    /\ UNCHANGED <<entered, variant, fetch, items, config, loading, showPreview, clipboard>>

handleSendWhatsApp(d) ==
    /\ config # Null
    /\ showToast("Opening WhatsApp...", "info")
    /\ lastOp' = [op |-> "send", id |-> 0, arg |-> "", again |-> FALSE]
    /\ before' = <<>>
    /\ handed' = [via |-> "link", encoded |-> TRUE,
                  target |-> "https://wa.me/" \o config.user.shopkeeperMobile
                                \o "?text=",
                  text |-> generateListText(variant, items, config, d)]
    /\ UNCHANGED <<entered, variant, fetch, items, config, loading, showPreview, clipboard>>

\* The buttons of the preview.
CopyClick(d) == View = "preview" /\ handleCopyToClipboard(d)

CopyClickUnavailable == View = "preview" /\ handleCopyToClipboardUnavailable

DownloadClick(d) == View = "preview" /\ handleDownload(d)

SendClick(d) == View = "preview" /\ handleSendWhatsApp(d)

Next ==
    \/ \E doc \in Documents : LoadConfig(doc)
    \/ \E doc \in MalformedDocuments : LoadMalformed(doc)
    \/ \E kind \in {"rejected", "invalidJSON"} : LoadReject(kind)
    \/ ToastTimeout
    \/ \E i \in 1..Len(items) : CheckboxEvent(i)
    \/ \E i \in 1..Len(items), unit \in UnitLabels : UnitEvent(i, unit)
    \/ \E i \in 1..Len(items), quantity \in NumberInputs \cup TextInputs :
          QuantityEvent(i, quantity)
    \/ SubmitClick
    \/ BackClick
    \/ \E d \in Dates : CopyClick(d)
    \/ CopyClickUnavailable
    \/ ClipboardFulfilled
    \/ ClipboardRejected
    \/ \E d \in Dates : DownloadClick(d)
    \/ \E d \in Dates : SendClick(d)

Spec == Init /\ [][Next]_vars

-----------------------------------------------------------------------------
(* Properties *)

Rows == 1..Len(items)

SelectedRows == { i \in Rows : items[i].selected }

\* The row of the j-th selected entry, counting in catalog order.
NthSelected(j) ==
    CHOOSE i \in SelectedRows : Cardinality({ m \in SelectedRows : m <= i }) = j

LoadFailed == fetch \in {"rejected", "invalidJSON", "malformed"}

SomeUserEvent ==
    \/ \E i \in Rows : CheckboxEvent(i)
    \/ \E i \in Rows, unit \in UnitLabels : UnitEvent(i, unit)
    \/ \E i \in Rows, quantity \in NumberInputs \cup TextInputs :
          QuantityEvent(i, quantity)
    \/ SubmitClick
    \/ BackClick
    \/ \E d \in Dates : CopyClick(d) \/ DownloadClick(d) \/ SendClick(d)
    \/ CopyClickUnavailable

\* The rendering of an entry as the specification words it.
ClaimedRendering(e) ==
    IF e.unit = Other THEN e.quantity \o " " \o e.name
    ELSE e.quantity \o " " \o e.unit \o " " \o e.name

\* C1: before the configuration load completes the entry list is empty; when
\* the load succeeds with a catalog of N items the list holds exactly N
\* entries, entry i carrying the id and name of catalog item i, every entry
\* unselected and with quantity "1".
C1_LoadInitialisesEntries ==
    /\ fetch = "pending" => items = <<>>
    /\ (fetch = "fulfilled" /\ lastOp.op = "load") =>
          /\ Len(items) = Len(config.items)
          /\ \A i \in 1..Len(config.items) :
                /\ items[i].id = config.items[i].id
                /\ items[i].name = config.items[i].name
                /\ items[i].selected = FALSE
                /\ items[i].quantity = "1"

C1_Witness ==
    /\ fetch = "fulfilled"
    /\ lastOp.op = "load"
    /\ Len(config.items) >= 2
    /\ Len(items) = Len(config.items)

\* C2: a submit while no entry is selected leaves the view and the entries
\* as they were, never opens the preview and shows a notice of severity
\* warning; a submit with at least one selected entry opens the preview.
C2_SubmitGuard ==
    [][ SubmitClick =>
          IF SelectedRows = {}
          THEN /\ View' = View
               /\ View' # "preview"
               /\ items' = items
               /\ toast'.show
               /\ toast'.type = "warning"
          ELSE View' = "preview" ]_vars

C2_Witness ==
    /\ lastOp.op = "submit"
    /\ View = "editing"
    /\ Len(items) >= 1
    /\ SelectedRows = {}
    /\ toast.show
    /\ toast.type = "warning"

\* C3: after a configuration load failure (rejected fetch, invalid JSON, or
\* a parsed document without an items sequence) the configuration-error panel
\* is shown, no user action is possible, and the load is not attempted again.
C3_LoadFailureIsConfigurationError ==
    LoadFailed =>
        /\ View = "configurationError"
        /\ ~ ENABLED SomeUserEvent
        /\ ~ ENABLED (\E doc \in Documents : LoadConfig(doc))

\* C4: the view is one of loading, editing, preview, configurationError; it
\* changes only loading -> editing, loading -> configurationError, editing ->
\* preview (a submit with a selected entry) and preview -> editing (back,
\* always possible); configurationError is never left and loading never
\* re-entered.
C4_ViewTransitions ==
    /\ [](View = "preview" => ENABLED BackClick)
    /\ [][ /\ View \in {"loading", "editing", "preview", "configurationError"}
           /\ View' # View =>
                 /\ <<View, View'>> \in { <<"loading", "editing">>,
                                          <<"loading", "configurationError">>,
                                          <<"editing", "preview">>,
                                          <<"preview", "editing">> }
                 /\ (View = "editing" => SubmitClick /\ SelectedRows # {})
                 /\ (View = "preview" => BackClick) ]_vars

C4_Witness ==
    /\ View = "editing"
    /\ lastOp.op = "back"
    /\ SelectedRows # {}

\* C5: the text handed to an exporter has one numbered line per selected
\* entry and none for an unselected one, in catalog order and numbered 1..k,
\* and its last line is the total count k of selected entries.
C5_ExportNumberedLinesAndTotal ==
    handed.via # "none" =>
        LET k == Cardinality(SelectedRows)
            lines == handed.text
            rendering(e) == IF variant = CatalogView THEN formatItemDisplay(e)
                            ELSE itemText(e)
            numbered == { ToString(j) \o ") " \o rendering(items[i]) :
                            j \in Rows, i \in Rows }
        IN  /\ Len(lines) > 7 + k
            /\ \A j \in 1..k :
                  lines[7 + j] = ToString(j) \o ") " \o rendering(items[NthSelected(j)])
            /\ \A n \in 1..Len(lines) :
                  n \notin (8..(7 + k)) => lines[n] \notin numbered
            /\ lines[Len(lines)] = "Total Items: " \o ToString(k)

C7_ToggleTwice ==
    [][ \A i \in Rows :
          CheckboxEvent(i) =>
             /\ (lastOp.op = "toggle" /\ lastOp.id = items[i].id) =>
                   /\ items' = before
                   /\ \A j \in Rows : items'[j].selected = before[j].selected
             /\ \A j \in Rows : items[j].id # items[i].id => items'[j] = items[j] ]_vars

C7_Witness ==
    /\ lastOp.op = "toggle"
    /\ lastOp.again
    /\ \E i, j \in Rows : items[i].id = lastOp.id /\ items[j].id # lastOp.id
    /\ \E i \in Rows : items[i].id = lastOp.id /\ items[i].selected

\* C8: one call of toggle-selection, change-unit or change-quantity changes
\* at most one entry and only the field the operation names; the number and
\* order of the entries, their ids and names and the view are unchanged.
C8_SingleEntryFrame ==
    [][ \A i \in Rows :
          LET changed == { j \in Rows : items'[j] # items[j] }
              frame == /\ Len(items') = Len(items)
                       /\ Cardinality(changed) <= 1
                       /\ \A j \in Rows : /\ items'[j].id = items[j].id
                                          /\ items'[j].name = items[j].name
                       /\ View' = View
          IN  /\ CheckboxEvent(i) =>
                    /\ frame
                    /\ \A j \in Rows : /\ items'[j].unit = items[j].unit
                                       /\ items'[j].quantity = items[j].quantity
              /\ (\E unit \in UnitLabels : UnitEvent(i, unit)) =>
                    /\ frame
                    /\ \A j \in Rows : /\ items'[j].selected = items[j].selected
                                       /\ items'[j].quantity = items[j].quantity
              /\ (\E quantity \in NumberInputs \cup TextInputs :
                      QuantityEvent(i, quantity)) =>
                    /\ frame
                    /\ \A j \in Rows : /\ items'[j].selected = items[j].selected
                                       /\ items'[j].unit = items[j].unit ]_vars

\* C9: every entry's unit is a unit of the loaded configuration or the
\* "Other" sentinel.
C9_UnitIsConfigured ==
    fetch = "fulfilled" =>
        \A i \in Rows : items[i].unit \in Range(config.units) \cup {Other}

\* C10: changing a selected entry's unit to "Other" and then back to the
\* unit it had leaves the entry's quantity as it was before the two changes;
\* a unit change never writes a quantity.
C10_UnitRoundTripKeepsQuantity ==
    [][ \A i \in Rows, unit \in UnitLabels :
          UnitEvent(i, unit) =>
             /\ ( /\ lastOp.op = "unit"
                  /\ lastOp.id = items[i].id
                  /\ lastOp.arg = Other
                  /\ before[i].unit = unit ) =>
                   /\ items'[i].quantity = before[i].quantity
                   /\ items'[i].unit = before[i].unit
             /\ \A j \in Rows : items'[j].quantity = items[j].quantity ]_vars

C10_Witness ==
    /\ lastOp.op = "unit"
    /\ lastOp.again
    /\ \E i \in Rows :
          /\ items[i].id = lastOp.id
          /\ items[i].selected
          /\ items[i].unit = lastOp.arg
          /\ items[i].quantity = "Rs.20"

SelectedRowsOf(list) == { i \in 1..Len(list) : list[i].selected }

NthSelectedOf(list, j) ==
    CHOOSE i \in SelectedRowsOf(list) :
        Cardinality({ m \in SelectedRowsOf(list) : m <= i }) = j

\* The lines of a text that are numbered item lines of some entry of list.
NumberedLinesOf(text, list) ==
    { n \in 1..Len(text) :
        \E j \in 1..Len(list), i \in 1..Len(list) :
            text[n] = ToString(j) \o ") " \o ClaimedRendering(list[i]) }

C12_NoticeLifetime ==
    [][ (ToastTimeout /\ toast.show) => timers = 1 ]_vars

\* C13: while the preview is shown at least one entry is selected and the
\* entry list is the one the preview was entered with; every text handed
\* out by an exporter is produced in the preview, lists at least one entry
\* and lists exactly the entries that were selected when the preview was
\* entered.
C13_PreviewSelection ==
    /\ View = "preview" =>
          /\ SelectedRows # {}
          /\ items = entered
    /\ handed.via # "none" =>
          LET k == Cardinality(SelectedRowsOf(entered))
          IN  /\ View = "preview"
              /\ k >= 1
              /\ NumberedLinesOf(handed.text, entered) = 8..(7 + k)
              /\ \A j \in 1..k :
                    handed.text[7 + j] =
                       ToString(j) \o ") "
                          \o ClaimedRendering(entered[NthSelectedOf(entered, j)])

C13_Witness ==
    /\ View = "preview"
    /\ handed.via # "none"
    /\ Len(entered) = 2
    /\ Cardinality(SelectedRowsOf(entered)) = 1
    /\ lastOp.op \in {"download", "send"}

====
